---- MODULE Spec2Model ----
(***************************************************************************)
(* HiveBounty: the escrow gateway (server/server.js), its client           *)
(* (src/services/escrow.service.ts) and the bounty state machine           *)
(* (src/contracts/bounty.contract.ts), as one state machine.               *)
(*                                                                         *)
(* Every `await` of the source is a step boundary: a handler is one action *)
(* per stretch of code between two awaits, so that concurrent requests     *)
(* interleave exactly where the JavaScript event loop lets them.           *)
(***************************************************************************)
EXTENDS Integers, Sequences, FiniteSets, TLC

(* ------------------------------ bounds -------------------------------- *)

\* Calls made in one behaviour; each has a slot of its own, so all of them
\* may be in flight at once.
MaxCalls == 2

\* The custodial account's balance when the service starts (whole HIVE).
InitialEscrowBalance == 100

\* Each user's balance when the service starts (whole HIVE).
InitialUserBalance == 50

(* ------------------------------ values -------------------------------- *)

Slots == 1..MaxCalls

Users == {"alice", "bob"}

EscrowName == "escrow"

Bounties == {"b1", "b2"}

\* Request amounts as the texts a client sends: sequences of characters.
AmountTexts == { <<>>, <<"a", "b", "c">>, <<"-", "5">>, <<"0">>, <<"3", "0">>, <<"8", "0">> }

\* Prize pools a creator may ask for.
PrizePools == {-5, 0, 30, 80}

\* The x-api-key header values a client may send ("" is an absent header).
HeaderKeys == {"", "your-api-key", "stale-key"}

\* A JavaScript number: NaN, or a whole number.
NaN == [nan |-> TRUE, val |-> 0]

Num(n) == [nan |-> FALSE, val |-> n]

isNaN(x) == x.nan

\* x < y and x <= y on JavaScript numbers: false when either is NaN.
Lt(x, y) == ~x.nan /\ ~y.nan /\ x.val < y.val

Le(x, y) == ~x.nan /\ ~y.nan /\ x.val <= y.val

Digits == <<"0", "1", "2", "3", "4", "5", "6", "7", "8", "9">>

IsDigit(ch) == \E i \in 1..10 : Digits[i] = ch

DigitVal(ch) == (CHOOSE i \in 1..10 : Digits[i] = ch) - 1

\* The longest prefix of digits of t, read as a number, given the value so far.
RECURSIVE DigitPrefix(_, _)
DigitPrefix(t, acc) ==
    IF t = <<>> \/ ~IsDigit(Head(t)) THEN acc
    ELSE DigitPrefix(Tail(t), 10 * acc + DigitVal(Head(t)))

\* JavaScript's parseFloat on a text of the model's alphabet: an optional
\* sign, then the longest prefix of digits; NaN when there is no digit.
parseFloat(t) ==
    LET neg  == t # <<>> /\ Head(t) = "-"
        body == IF neg THEN Tail(t) ELSE t
    IN  IF body = <<>> \/ ~IsDigit(Head(body)) THEN NaN
        ELSE IF neg THEN Num(0 - DigitPrefix(body, 0)) ELSE Num(DigitPrefix(body, 0))

\* JavaScript's truthiness of a request field that is a text: "" is falsy.
Truthy(t) == t # <<>>

\* Number.prototype.toString for the whole numbers the model uses.
RECURSIVE NatToText(_)
NatToText(n) ==
    IF n < 10 THEN <<Digits[n + 1]>>
    ELSE NatToText(n \div 10) \o <<Digits[(n % 10) + 1]>>

toString(n) == IF n < 0 THEN <<"-">> \o NatToText(0 - n) ELSE NatToText(n)

(* ------------------------------- state -------------------------------- *)

VARIABLES
    ESCROW_ACCOUNT,   \* server: the custodial account's name, "" when unset
    ACTIVE_KEY,       \* server: TRUE when the signing credential was loaded
    hive_keychain,    \* browser: TRUE when window.hive_keychain is present
    balance,          \* ledger: account name -> balance
    transfers,        \* ledger: the transfer operations it accepted, in order
    attestations,     \* ledger: the custom_json records it accepted, in order
    github,           \* code host: the state of the issue and of the pull request
    calls             \* slot -> the call made there

vars == <<ESCROW_ACCOUNT, ACTIVE_KEY, hive_keychain, balance, transfers,
          attestations, github, calls>>

\* What no step of the program writes: the configuration and the code host.
fixed == <<ESCROW_ACCOUNT, ACTIVE_KEY, hive_keychain, github>>

\* The transaction identifier the ledger gives its next operation.
NextTxId == Len(transfers) + Len(attestations) + 1

NoResult == [success |-> FALSE, message |-> "", txId |-> 0]

NoResponse == [status |-> 0, success |-> FALSE, message |-> "", transaction_id |-> 0]

IdleCall ==
    [ op       |-> "none",      \* the public operation called
      pc       |-> "idle",      \* where the call stands
      id       |-> 0,           \* the call's serial number
      user     |-> "",          \* this.username / requester
      bountyId |-> "",
      to       |-> "",
      amount   |-> <<>>,        \* the amount text sent to the gateway
      key      |-> "",          \* the x-api-key header sent
      peers    |-> {},          \* ids of the release requests in flight at receipt
      seen     |-> -1,          \* the balance getAccounts returned to this call (-1: none)
      atStart  |-> 0,           \* the custodial balance when the server received it
      readAt   |-> -1,          \* balance inquiry: transfers on the ledger when it read (-1: no read)
      sent     |-> 0,           \* transfer operations this call handed to the ledger
      prizePool |-> 0,          \* createBounty: bountyData.prizePool
      solver   |-> "",          \* verifyAndPayBounty: claim.solver
      githubLink |-> << >>,     \* claimBounty: bountyData.githubLink
      pullRequestUrl |-> << >>, \* claimBounty: pullRequestUrl
      queries  |-> << >>,       \* the code-host queries this call issued, in order
      failed   |-> FALSE,       \* a code-host query of this call went unanswered
      signed   |-> << >>,       \* the signer's completions this call observed, in order
      attTx    |-> 0,           \* the transaction id of the attestation it wrote
      fault    |-> FALSE,       \* the returned promise rejected instead of resolving
      resp     |-> NoResponse,  \* the gateway's HTTP response
      result   |-> NoResult ]   \* what the public operation returned

Result(ok, msg, tx) == [success |-> ok, message |-> msg, txId |-> tx]

Response(st, ok, msg, tx) ==
    [status |-> st, success |-> ok, message |-> msg, transaction_id |-> tx]

(* ---------------------------- the code host --------------------------- *)

\* The code host's state: is the issue closed, is the pull request merged,
\* has it an author, does it reference the issue.
GitHubStates == [issueClosed : BOOLEAN, merged : BOOLEAN, user : BOOLEAN, linked : BOOLEAN]

GitHubAllGood == [issueClosed |-> TRUE, merged |-> TRUE, user |-> TRUE, linked |-> TRUE]

(* ----------------------------- the ledger ----------------------------- *)

\* A ledger asset as the ledger prints it: "100.000 HIVE".
Asset(n) == toString(n) \o <<".", "0", "0", "0", " ", "H", "I", "V", "E">>

\* client.database.getAccounts([name]): the accounts found, each with its
\* balance printed as an asset.
getAccounts(name) ==
    IF name \in DOMAIN balance THEN << [name |-> name, balance |-> Asset(balance[name])] >>
    ELSE << >>

\* What a ledger call may do besides answering: the node cannot be reached.
LedgerOutcomes == {"ok", "unreachable"}

\* The ledger applies a transfer only when the sender holds the amount.
LedgerAccepts(from, amt) == from \in DOMAIN balance /\ amt > 0 /\ balance[from] >= amt

Transfer(from, to, amt, bounty, by) ==
    [from |-> from, to |-> to, amount |-> amt, bountyId |-> bounty, call |-> by,
     txId |-> NextTxId]

\* The ledger's balances after it applied a transfer.
Debit(from, to, amt) ==
    [a \in DOMAIN balance |->
        IF a = from THEN balance[a] - amt
        ELSE IF a = to THEN balance[a] + amt
        ELSE balance[a]]

(* ------------------- escrow.service.ts: the client -------------------- *)

Or(msg, default) == IF msg = "" THEN default ELSE msg

\* releaseEscrowFunds with line 73 left out: the transaction identifier of
\* the response is not handed on.
ReleaseResult_NoTxId(resp) ==
    IF resp.status >= 400
    THEN Result(FALSE, Or(resp.message, "Failed to release funds"), 0)
    ELSE IF resp.success
         THEN Result(TRUE, Or(resp.message, "Funds released successfully"), 0)
         ELSE Result(FALSE, Or(resp.message, "Failed to release funds"), 0)

\* releaseEscrowFunds, lines 69-91: the gateway's HTTP response as the
\* TransactionResponse handed to the caller. axios throws on a status of 400
\* and above, and the catch reads the message of the response's body.
ReleaseResult(resp) ==
    IF resp.status >= 400
    THEN Result(FALSE, Or(resp.message, "Failed to release funds"), 0)
    ELSE IF resp.success
         THEN Result(TRUE, Or(resp.message, "Funds released successfully"), resp.transaction_id)
         ELSE Result(FALSE, Or(resp.message, "Failed to release funds"), 0)

\* checkEscrowBalance, lines 31-46.
BalanceResult(resp) ==
    IF resp.status >= 400
    THEN Result(FALSE, Or(resp.message, "Failed to check escrow balance"), 0)
    ELSE Result(resp.success, resp.message, 0)

\* The call in slot s gets the gateway's response and returns to its caller.
Respond(s, resp) ==
    calls' = [calls EXCEPT ![s].resp = resp,
                           ![s].result = IF calls[s].op = "checkEscrowBalance"
                                         THEN BalanceResult(resp)
                                         ELSE ReleaseResult(resp),
                           ![s].pc = "done"]

\* The same, for a request that has read the custodial balance.
RespondAfterRead(s, bal, resp) ==
    calls' = [calls EXCEPT ![s].seen = bal,
                           ![s].resp = resp,
                           ![s].result = ReleaseResult(resp),
                           ![s].pc = "done"]

\* A call may start in slot s: the lowest free slot takes the next call.
CanStart(s) ==
    /\ calls[s].pc = "idle"
    /\ \A t \in Slots : t < s => calls[t].pc # "idle"

\* The release requests the server is working on.
InFlight == { calls[t].id : t \in { u \in Slots : calls[u].pc \in {"getAccounts", "broadcast"} } }

\* releaseEscrowFunds(to, amount, bountyId, requester, memo), lines 51-67:
\* POST /release with the client's key in the X-API-Key header.
releaseEscrowFunds(s, to, amount, bountyId, requester, key) ==
    /\ CanStart(s)
    /\ calls' = [calls EXCEPT ![s] =
            [IdleCall EXCEPT !.op = "releaseEscrowFunds", !.pc = "posted",
                             !.id = s, !.user = requester,
                             !.bountyId = bountyId, !.to = to,
                             !.amount = amount, !.key = key]]
    /\ UNCHANGED <<fixed, balance, transfers, attestations>>

\* checkEscrowBalance(), lines 31-33: GET /balance.
checkEscrowBalance(s, key) ==
    /\ CanStart(s)
    /\ calls' = [calls EXCEPT ![s] =
            [IdleCall EXCEPT !.op = "checkEscrowBalance", !.pc = "balancePosted",
                             !.id = s, !.key = key]]
    /\ UNCHANGED <<fixed, balance, transfers, attestations>>

\* The request never reaches the gateway: axios throws without a response
\* and the catch returns err.message.
NetworkError(s) ==
    /\ calls[s].pc \in {"posted", "balancePosted"}
    /\ calls' = [calls EXCEPT ![s].result = Result(FALSE, "Network Error", 0),
                              ![s].pc = "done"]
    /\ UNCHANGED <<fixed, balance, transfers, attestations>>

(* ---------------------- server.js: the gateway ------------------------ *)

API_KEY == "your-api-key"

\* verifyApiKey without the comparison of line 37: any key will do.
verifyApiKey_AnyKey(providedKey) == providedKey # ""

\* verifyApiKey, lines 35-42.
verifyApiKey(providedKey) == providedKey # "" /\ providedKey = API_KEY

\* POST /api/release without lines 105-110: the signing key is not looked at.
Release_Receive_NoKeyCheck(s) ==
    LET c == calls[s] IN
    /\ c.pc = "posted"
    /\ IF ~verifyApiKey(c.key)
       THEN Respond(s, Response(401, FALSE, "Unauthorized", 0))
       ELSE IF ~(c.to # "") \/ ~Truthy(c.amount) \/ ~(c.bountyId # "") \/ ~(c.user # "")
       THEN Respond(s, Response(400, FALSE, "Missing required parameters", 0))
       ELSE IF ESCROW_ACCOUNT = ""
       THEN Respond(s, Response(500, FALSE, "Escrow account not properly configured", 0))
       ELSE calls' = [calls EXCEPT ![s].pc = "getAccounts",
                                   ![s].peers = InFlight,
                                   ![s].atStart = IF ESCROW_ACCOUNT \in DOMAIN balance
                                                  THEN balance[ESCROW_ACCOUNT] ELSE 0]
    /\ UNCHANGED <<fixed, balance, transfers, attestations>>

\* POST /api/release, lines 85-113: from the request's arrival to the await
\* of getAccounts.
Release_Receive(s) ==
    LET c == calls[s] IN
    /\ c.pc = "posted"
    /\ IF ~verifyApiKey(c.key)
       THEN Respond(s, Response(401, FALSE, "Unauthorized", 0))
       ELSE IF ~(c.to # "") \/ ~Truthy(c.amount) \/ ~(c.bountyId # "") \/ ~(c.user # "")
       THEN Respond(s, Response(400, FALSE, "Missing required parameters", 0))
       ELSE IF ESCROW_ACCOUNT = ""
       THEN Respond(s, Response(500, FALSE, "Escrow account not properly configured", 0))
       ELSE IF ~ACTIVE_KEY
       THEN Respond(s, Response(500, FALSE, "Private key not configured or invalid", 0))
       ELSE calls' = [calls EXCEPT ![s].pc = "getAccounts",
                                   ![s].peers = InFlight,
                                   ![s].atStart = IF ESCROW_ACCOUNT \in DOMAIN balance
                                                  THEN balance[ESCROW_ACCOUNT] ELSE 0]
    /\ UNCHANGED <<fixed, balance, transfers, attestations>>

\* InvalidAmount with the sign test left out.
InvalidAmount_NaNOnly(requestedAmount) == isNaN(requestedAmount)

\* POST /api/release, line 124: the amount is no positive number.
InvalidAmount(requestedAmount) == isNaN(requestedAmount) \/ Le(requestedAmount, Num(0))

\* POST /api/release, line 131: the balance read does not cover the amount.
InsufficientBalance(bal, requestedAmount) == Lt(bal, requestedAmount)

\* POST /api/release, lines 113-150: getAccounts answers; the balance and the
\* amount are checked; the transfer is built and handed to sendOperations.
Release_Check(s, outcome) ==
    LET c        == calls[s]
        accounts == getAccounts(ESCROW_ACCOUNT)
        bal      == parseFloat(accounts[1].balance)
        requestedAmount == parseFloat(c.amount)
    IN
    /\ c.pc = "getAccounts"
    /\ IF outcome = "unreachable"
       THEN Respond(s, Response(500, FALSE, "Ledger unreachable", 0))
       ELSE IF Len(accounts) = 0
       THEN Respond(s, Response(404, FALSE, "Escrow account not found", 0))
       ELSE IF InvalidAmount(requestedAmount)
       THEN RespondAfterRead(s, bal.val, Response(400, FALSE, "Invalid amount", 0))
       ELSE IF InsufficientBalance(bal, requestedAmount)
       THEN RespondAfterRead(s, bal.val, Response(400, FALSE, "Insufficient balance in escrow account", 0))
       ELSE calls' = [calls EXCEPT ![s].pc = "broadcast", ![s].seen = bal.val,
                                   ![s].sent = c.sent + 1]
    /\ UNCHANGED <<fixed, balance, transfers, attestations>>

\* POST /api/release, lines 150-162: sendOperations answers. The ledger
\* applies the transfer or refuses it; a refusal or an unreachable node is
\* thrown and the catch answers 500 with the error's message.
Release_Broadcast(s, outcome) ==
    LET c   == calls[s]
        amt == parseFloat(c.amount).val
    IN
    /\ c.pc = "broadcast"
    /\ IF outcome = "unreachable"
       THEN /\ Respond(s, Response(500, FALSE, "Ledger unreachable", 0))
            /\ UNCHANGED <<balance, transfers>>
       ELSE IF ~LedgerAccepts(ESCROW_ACCOUNT, amt)
       THEN /\ Respond(s, Response(500, FALSE, "Ledger refused the transfer", 0))
            /\ UNCHANGED <<balance, transfers>>
       ELSE /\ transfers' = Append(transfers, Transfer(ESCROW_ACCOUNT, c.to, amt, c.bountyId, c.id))
            /\ balance' = Debit(ESCROW_ACCOUNT, c.to, amt)
            /\ calls' = [calls EXCEPT
                    ![s].resp = Response(200, TRUE, "Successfully sent", NextTxId),
                    ![s].result = ReleaseResult(Response(200, TRUE, "Successfully sent", NextTxId)),
                    ![s].pc = "done"]
    /\ UNCHANGED <<fixed, attestations>>

\* GET /api/balance, lines 54-63.
Balance_Receive(s) ==
    LET c == calls[s] IN
    /\ c.pc = "balancePosted"
    /\ IF ~verifyApiKey(c.key)
       THEN Respond(s, Response(401, FALSE, "Unauthorized", 0))
       ELSE IF ESCROW_ACCOUNT = ""
       THEN Respond(s, Response(500, FALSE, "Escrow account not configured", 0))
       ELSE calls' = [calls EXCEPT ![s].pc = "balanceGetAccounts"]
    /\ UNCHANGED <<fixed, balance, transfers, attestations>>

\* GET /api/balance answering from the balance the account had at the
\* start instead of the one getAccounts returns at line 63.
Balance_Reply_Stale(s, outcome) ==
    LET c        == calls[s]
        accounts == getAccounts(ESCROW_ACCOUNT)
    IN
    /\ c.pc = "balanceGetAccounts"
    /\ IF outcome = "unreachable"
       THEN Respond(s, Response(500, FALSE, "Ledger unreachable", 0))
       ELSE IF Len(accounts) = 0
       THEN Respond(s, Response(404, FALSE, "Account not found", 0))
       ELSE calls' = [calls EXCEPT
                ![s].seen = InitialEscrowBalance,
                ![s].readAt = Len(transfers),
                ![s].resp = Response(200, TRUE, "", 0),
                ![s].result = BalanceResult(Response(200, TRUE, "", 0)),
                ![s].pc = "done"]
    /\ UNCHANGED <<fixed, balance, transfers, attestations>>

\* GET /api/balance, lines 63-81.
Balance_Reply(s, outcome) ==
    LET c        == calls[s]
        accounts == getAccounts(ESCROW_ACCOUNT)
    IN
    /\ c.pc = "balanceGetAccounts"
    /\ IF outcome = "unreachable"
       THEN Respond(s, Response(500, FALSE, "Ledger unreachable", 0))
       ELSE IF Len(accounts) = 0
       THEN Respond(s, Response(404, FALSE, "Account not found", 0))
       ELSE calls' = [calls EXCEPT
                ![s].seen = parseFloat(accounts[1].balance).val,
                ![s].readAt = Len(transfers),
                ![s].resp = Response(200, TRUE, "", 0),
                ![s].result = BalanceResult(Response(200, TRUE, "", 0)),
                ![s].pc = "done"]
    /\ UNCHANGED <<fixed, balance, transfers, attestations>>

(* ------------- utils/github: the code-host verification client -------- *)

IssueUrl == <<"github.com", "owner", "repo", "issues", "5">>

PrUrl == <<"github.com", "owner", "repo", "pull", "7">>

OtherRepoPrUrl == <<"github.com", "other", "repo", "pull", "7">>

BadUrl == <<"example.com", "owner">>

IssueUrls == {IssueUrl, BadUrl}

PullRequestUrls == {PrUrl, OtherRepoPrUrl, BadUrl}

NoUrlInfo == [ok |-> FALSE, owner |-> "", repo |-> "", number |-> 0]

\* parseGitHubUrl(url): owner, repo and number of an issue or pull request
\* URL; null (ok = FALSE) for any other shape.
parseGitHubUrl(url) ==
    IF /\ Len(url) = 5
       /\ url[1] = "github.com"
       /\ url[4] \in {"issues", "pull"}
       /\ IsDigit(url[5])
    THEN [ok |-> TRUE, owner |-> url[2], repo |-> url[3], number |-> DigitVal(url[5])]
    ELSE NoUrlInfo

\* What a code-host query may do besides answering: the API call fails.
CodeHostOutcomes == {"ok", "fails"}

\* isIssueClosed(owner, repo, number): false when the API call fails.
isIssueClosed(outcome) == outcome = "ok" /\ github.issueClosed

\* isPRLinkedToIssue(owner, repo, prNumber, issueNumber): false on missing evidence.
isPRLinkedToIssue(outcome) == outcome = "ok" /\ github.linked

(* ------------------ the signer: window.hive_keychain ------------------- *)

\* How requestCustomJson completes: the record is signed and on the ledger,
\* or the signer answers with an error.
SignerOutcomes == {"signed", "refused"}

Attestation(type, bounty, signer, amt, by) ==
    [type |-> type, bountyId |-> bounty, signer |-> signer, amount |-> amt,
     call |-> by, txId |-> NextTxId]

\* The attestations of bounty b, in the ledger's order.
RECURSIVE TrailOf(_, _)
TrailOf(log, b) ==
    IF log = << >> THEN << >>
    ELSE IF Head(log).bountyId = b THEN <<Head(log).type>> \o TrailOf(Tail(log), b)
    ELSE TrailOf(Tail(log), b)

(* ------------- bounty.contract.ts: the bounty state machine ------------ *)

CONTRACT_ACCOUNT == EscrowName

ESCROW_API_KEY == "your-api-key"

\* The call in slot s returns result r to its caller.
Finish(s, r) == calls' = [calls EXCEPT ![s].result = r, ![s].pc = "done"]

\* createBounty(bountyData), lines 22-25: up to the await of the contract
\* account. b names the bounty the record describes.
createBounty(s, username, b, prizePool) ==
    /\ CanStart(s)
    /\ calls' = [calls EXCEPT ![s] =
            [IdleCall EXCEPT !.op = "createBounty", !.pc = "contractAccount",
                             !.id = s, !.user = username,
                             !.atStart = balance[username],
                             !.bountyId = b, !.prizePool = prizePool]]
    /\ UNCHANGED <<fixed, balance, transfers, attestations>>

\* createBounty, lines 25-42: the contract account is looked up, then the
\* creator's.
Create_ContractAccount(s, outcome) ==
    LET contractAccounts == getAccounts(CONTRACT_ACCOUNT) IN
    /\ calls[s].pc = "contractAccount"
    /\ IF outcome = "unreachable"
       THEN Finish(s, Result(FALSE, "Failed to create bounty: Ledger unreachable", 0))
       ELSE IF Len(contractAccounts) = 0
       THEN Finish(s, Result(FALSE, "Contract account does not exist", 0))
       ELSE calls' = [calls EXCEPT ![s].pc = "userAccount"]
    /\ UNCHANGED <<fixed, balance, transfers, attestations>>

\* createBounty, line 54, taken the other way round.
InsufficientUserBalance_Reversed(userBalance, bountyAmount) == Lt(bountyAmount, userBalance)

\* createBounty, line 54: userBalance < bountyAmount.
InsufficientUserBalance(userBalance, bountyAmount) == Lt(userBalance, bountyAmount)

\* createBounty, lines 42-79: the creator's balance is compared with the
\* prize pool; then the creation record is handed to the signer.
Create_UserAccount(s, outcome) ==
    LET c            == calls[s]
        accounts     == getAccounts(c.user)
        userBalance  == parseFloat(accounts[1].balance)
        bountyAmount == parseFloat(toString(c.prizePool))
    IN
    /\ c.pc = "userAccount"
    /\ IF outcome = "unreachable"
       THEN Finish(s, Result(FALSE, "Failed to create bounty: Ledger unreachable", 0))
       ELSE IF Len(accounts) = 0
       THEN Finish(s, Result(FALSE, "Could not fetch account information", 0))
       ELSE IF InsufficientUserBalance(userBalance, bountyAmount)
       THEN calls' = [calls EXCEPT ![s].seen = userBalance.val,
                                   ![s].result = Result(FALSE, "Insufficient balance", 0),
                                   ![s].pc = "done"]
       ELSE IF ~hive_keychain
       THEN calls' = [calls EXCEPT ![s].seen = userBalance.val,
                                   ![s].result = Result(FALSE, "Hive Keychain extension not found", 0),
                                   ![s].pc = "done"]
       ELSE calls' = [calls EXCEPT ![s].seen = userBalance.val, ![s].pc = "createSigning"]
    /\ UNCHANGED <<fixed, balance, transfers, attestations>>

\* createBounty, lines 80-89 and 112-117: the signer's callback. On success
\* the funding transfer is started.
Create_Signed(s, outcome) ==
    LET c == calls[s] IN
    /\ c.pc = "createSigning"
    /\ IF outcome = "signed"
       THEN /\ attestations' = Append(attestations,
                    Attestation("bounty_create", c.bountyId, c.user, c.prizePool, c.id))
            /\ calls' = [calls EXCEPT ![s].signed = Append(c.signed, outcome),
                                      ![s].attTx = NextTxId,
                                      ![s].sent = c.sent + 1,
                                      ![s].pc = "funding"]
       ELSE /\ calls' = [calls EXCEPT ![s].signed = Append(c.signed, outcome),
                                      ![s].result = Result(FALSE, "Failed to create bounty", 0),
                                      ![s].pc = "done"]
            /\ UNCHANGED attestations
    /\ UNCHANGED <<fixed, balance, transfers>>

\* How sendHiveTokens ends: the transfer is on the ledger, it answers
\* success:false, or it throws.
SendOutcomes == {"ok", "fails", "throws"}

\* createBounty with lines 102 and 109 left out: the result of a failed
\* funding does not carry the creation record's transaction identifier.
Create_Funded_NoTxId(s, outcome) ==
    LET c   == calls[s]
        amt == parseFloat(toString(c.prizePool)).val
    IN
    /\ c.pc = "funding"
    /\ IF outcome = "ok" /\ LedgerAccepts(c.user, amt)
       THEN /\ transfers' = Append(transfers, Transfer(c.user, CONTRACT_ACCOUNT, amt, c.bountyId, c.id))
            /\ balance' = Debit(c.user, CONTRACT_ACCOUNT, amt)
            /\ calls' = [calls EXCEPT ![s].result = Result(TRUE, "Bounty created and funded successfully", c.attTx),
                                      ![s].pc = "done"]
       ELSE /\ Finish(s, Result(FALSE, "Bounty created but funding failed. Please try funding manually.", 0))
            /\ UNCHANGED <<balance, transfers>>
    /\ UNCHANGED <<fixed, attestations>>

\* createBounty, lines 84-111: sendHiveTokens(username, CONTRACT_ACCOUNT,
\* prizePool, memo) completes.
Create_Funded(s, outcome) ==
    LET c   == calls[s]
        amt == parseFloat(toString(c.prizePool)).val
    IN
    /\ c.pc = "funding"
    /\ IF outcome = "ok" /\ LedgerAccepts(c.user, amt)
       THEN /\ transfers' = Append(transfers, Transfer(c.user, CONTRACT_ACCOUNT, amt, c.bountyId, c.id))
            /\ balance' = Debit(c.user, CONTRACT_ACCOUNT, amt)
            /\ calls' = [calls EXCEPT ![s].result = Result(TRUE, "Bounty created and funded successfully", c.attTx),
                                      ![s].pc = "done"]
       ELSE /\ Finish(s, Result(FALSE, "Bounty created but funding failed. Please try funding manually.", c.attTx))
            /\ UNCHANGED <<balance, transfers>>
    /\ UNCHANGED <<fixed, attestations>>

\* What claimBounty hands back, seen from the operation that runs it.
\* claimBounty itself returns it (a rejected promise is a fault of the call);
\* autoVerifyAndPay, lines 320-341, awaits it: a rejection lands in its
\* catch, a failure is returned, a success goes on to the payment record.
ClaimReturn(c, r, rejected) ==
    IF c.op = "claimBounty"
    THEN [c EXCEPT !.result = r, !.fault = rejected, !.pc = "done"]
    ELSE IF rejected
    THEN [c EXCEPT !.result = Result(FALSE, "TypeError", 0), !.pc = "done"]
    ELSE IF ~r.success
    THEN [c EXCEPT !.result = r, !.pc = "done"]
    ELSE IF ~hive_keychain
    THEN [c EXCEPT !.result = Result(FALSE, "TypeError", 0), !.fault = TRUE, !.pc = "done"]
    ELSE [c EXCEPT !.pc = "paySigning"]

\* claimBounty without lines 148-153: the repositories are not compared.
ClaimStart_NoRepositoryCheck(c) ==
    LET issueUrlInfo == parseGitHubUrl(c.githubLink)
        prUrlInfo    == parseGitHubUrl(c.pullRequestUrl)
    IN
    IF ~issueUrlInfo.ok \/ ~prUrlInfo.ok
    THEN ClaimReturn(c, Result(FALSE, "Invalid GitHub URLs", 0), FALSE)
    ELSE [c EXCEPT !.queries = Append(c.queries, "isIssueClosed"), !.pc = "issueClosed"]

\* claimBounty, lines 136-160: the URLs are parsed and compared; then the
\* issue's state is asked for.
ClaimStart(c) ==
    LET issueUrlInfo == parseGitHubUrl(c.githubLink)
        prUrlInfo    == parseGitHubUrl(c.pullRequestUrl)
    IN
    IF ~issueUrlInfo.ok \/ ~prUrlInfo.ok
    THEN ClaimReturn(c, Result(FALSE, "Invalid GitHub URLs", 0), FALSE)
    ELSE IF issueUrlInfo.owner # prUrlInfo.owner \/ issueUrlInfo.repo # prUrlInfo.repo
    THEN ClaimReturn(c, Result(FALSE, "Pull request must be in the same repository as the issue", 0), FALSE)
    ELSE [c EXCEPT !.queries = Append(c.queries, "isIssueClosed"), !.pc = "issueClosed"]

\* claimBounty(bountyId, bountyData, pullRequestUrl), lines 130-160.
claimBounty(s, username, bountyId, githubLink, pullRequestUrl) ==
    /\ CanStart(s)
    /\ calls' = [calls EXCEPT ![s] = ClaimStart(
            [IdleCall EXCEPT !.op = "claimBounty", !.id = s, !.user = username,
                             !.bountyId = bountyId, !.githubLink = githubLink,
                             !.pullRequestUrl = pullRequestUrl])]
    /\ UNCHANGED <<fixed, balance, transfers, attestations>>

\* autoVerifyAndPay(bountyId, bountyData, pullRequestUrl), lines 313-320:
\* it runs claimBounty first.
autoVerifyAndPay(s, username, bountyId, githubLink, prizePool, pullRequestUrl) ==
    /\ CanStart(s)
    /\ calls' = [calls EXCEPT ![s] = ClaimStart(
            [IdleCall EXCEPT !.op = "autoVerifyAndPay", !.id = s, !.user = username,
                             !.bountyId = bountyId, !.githubLink = githubLink,
                             !.prizePool = prizePool,
                             !.pullRequestUrl = pullRequestUrl])]
    /\ UNCHANGED <<fixed, balance, transfers, attestations>>

\* claimBounty without lines 162-167: the issue's state is asked for and
\* not looked at.
Claim_IssueClosed_Ignored(s, outcome) ==
    LET c == calls[s] IN
    /\ c.pc = "issueClosed"
    /\ calls' = [calls EXCEPT ![s] =
            [c EXCEPT !.queries = Append(c.queries, "getPullRequestDetails"),
                      !.pc = "prDetails"]]
    /\ UNCHANGED <<fixed, balance, transfers, attestations>>

\* claimBounty, lines 156-174: isIssueClosed answers; then the pull request
\* is asked for.
Claim_IssueClosed(s, outcome) ==
    LET c == calls[s]
        isIssueResolved == isIssueClosed(outcome)
    IN
    /\ c.pc = "issueClosed"
    /\ calls' = [calls EXCEPT ![s] =
            IF ~isIssueResolved
            THEN ClaimReturn([c EXCEPT !.failed = (outcome = "fails")], Result(FALSE, "The issue must be closed before claiming the bounty", 0), FALSE)
            ELSE [c EXCEPT !.queries = Append(c.queries, "getPullRequestDetails"),
                           !.pc = "prDetails"]]
    /\ UNCHANGED <<fixed, balance, transfers, attestations>>

\* claimBounty, lines 170-196 and 243-248: getPullRequestDetails answers or
\* throws; then the link to the issue is asked for.
Claim_PrDetails(s, outcome) ==
    LET c == calls[s] IN
    /\ c.pc = "prDetails"
    /\ calls' = [calls EXCEPT ![s] =
            IF outcome = "fails"
            THEN ClaimReturn([c EXCEPT !.failed = TRUE], Result(FALSE, "Code host unreachable", 0), FALSE)
            ELSE IF ~github.merged
            THEN ClaimReturn(c, Result(FALSE, "The pull request must be merged before claiming the bounty", 0), FALSE)
            ELSE IF ~github.user
            THEN ClaimReturn(c, Result(FALSE, "Could not verify pull request creator", 0), FALSE)
            ELSE [c EXCEPT !.queries = Append(c.queries, "isPRLinkedToIssue"),
                           !.pc = "prLinked"]]
    /\ UNCHANGED <<fixed, balance, transfers, attestations>>

\* claimBounty without lines 198-203: the link to the issue is asked for and
\* not looked at.
Claim_PrLinked_Ignored(s, outcome) ==
    LET c == calls[s] IN
    /\ c.pc = "prLinked"
    /\ calls' = [calls EXCEPT ![s] =
            IF ~hive_keychain
            THEN ClaimReturn(c, Result(FALSE, "TypeError", 0), TRUE)
            ELSE [c EXCEPT !.pc = "claimSigning"]]
    /\ UNCHANGED <<fixed, balance, transfers, attestations>>

\* claimBounty handing the claim record to the signer before line 198
\* looks at the link: a claim rejected there has left its record.
Claim_PrLinked_RecordsFirst(s, outcome) ==
    LET c == calls[s]
        isPRLinked == isPRLinkedToIssue(outcome)
    IN
    /\ c.pc = "prLinked"
    /\ IF ~isPRLinked
       THEN /\ attestations' = Append(attestations,
                    Attestation("bounty_claim", c.bountyId, c.user, 0, c.id))
            /\ calls' = [calls EXCEPT ![s] =
                    ClaimReturn([c EXCEPT !.failed = (outcome = "fails")],
                                Result(FALSE, "The pull request must reference the issue it resolves", 0),
                                FALSE)]
       ELSE /\ calls' = [calls EXCEPT ![s] =
                    IF ~hive_keychain
                    THEN ClaimReturn(c, Result(FALSE, "TypeError", 0), TRUE)
                    ELSE [c EXCEPT !.pc = "claimSigning"]]
            /\ UNCHANGED attestations
    /\ UNCHANGED <<fixed, balance, transfers>>

\* claimBounty, lines 191-226: isPRLinkedToIssue answers; then the claim
\* record is handed to the signer. Without a signer the promise's executor
\* throws and the returned promise rejects: the try block has returned.
Claim_PrLinked(s, outcome) ==
    LET c == calls[s]
        isPRLinked == isPRLinkedToIssue(outcome)
    IN
    /\ c.pc = "prLinked"
    /\ calls' = [calls EXCEPT ![s] =
            IF ~isPRLinked
            THEN ClaimReturn([c EXCEPT !.failed = (outcome = "fails")], Result(FALSE, "The pull request must reference the issue it resolves", 0), FALSE)
            ELSE IF ~hive_keychain
            THEN ClaimReturn(c, Result(FALSE, "TypeError", 0), TRUE)
            ELSE [c EXCEPT !.pc = "claimSigning"]]
    /\ UNCHANGED <<fixed, balance, transfers, attestations>>

\* claimBounty, lines 227-240: the signer's callback.
Claim_Signed(s, outcome) ==
    LET c  == calls[s]
        c2 == [c EXCEPT !.signed = Append(c.signed, outcome)]
    IN
    /\ c.pc = "claimSigning"
    /\ IF outcome = "signed"
       THEN /\ attestations' = Append(attestations,
                    Attestation("bounty_claim", c.bountyId, c.user, 0, c.id))
            /\ calls' = [calls EXCEPT ![s] =
                    ClaimReturn([c2 EXCEPT !.attTx = NextTxId],
                                Result(TRUE, "Claim submitted successfully. The bounty creator will review your claim.", NextTxId),
                                FALSE)]
       ELSE /\ calls' = [calls EXCEPT ![s] =
                    ClaimReturn(c2, Result(FALSE, "Failed to submit claim", 0), FALSE)]
            /\ UNCHANGED attestations
    /\ UNCHANGED <<fixed, balance, transfers>>

\* autoVerifyAndPay, lines 343-356: the signer's callback for the payment
\* record.
Auto_PaySigned(s, outcome) ==
    LET c == calls[s] IN
    /\ c.pc = "paySigning"
    /\ IF outcome = "signed"
       THEN /\ attestations' = Append(attestations,
                    Attestation("bounty_pay", c.bountyId, c.user, c.prizePool, c.id))
            /\ calls' = [calls EXCEPT ![s].signed = Append(c.signed, outcome),
                                      ![s].result = Result(TRUE, "Bounty payment successful!", NextTxId),
                                      ![s].pc = "done"]
       ELSE /\ calls' = [calls EXCEPT ![s].signed = Append(c.signed, outcome),
                                      ![s].result = Result(FALSE, "Failed to process payment", 0),
                                      ![s].pc = "done"]
            /\ UNCHANGED attestations
    /\ UNCHANGED <<fixed, balance, transfers>>

\* verifyAndPayBounty(bountyId, claim, bountyAmount), lines 252-274 and
\* 304-309: the approval record is handed to the signer. Without a signer
\* the executor throws, the awaited promise rejects and the catch returns.
verifyAndPayBounty(s, username, bountyId, solver, bountyAmount) ==
    /\ CanStart(s)
    /\ calls' = [calls EXCEPT ![s] =
            IF ~hive_keychain
            THEN [IdleCall EXCEPT !.op = "verifyAndPayBounty", !.id = s,
                                  !.user = username, !.bountyId = bountyId,
                                  !.solver = solver, !.amount = bountyAmount,
                                  !.result = Result(FALSE, "Error processing payment: TypeError", 0),
                                  !.pc = "done"]
            ELSE [IdleCall EXCEPT !.op = "verifyAndPayBounty", !.id = s,
                                  !.user = username, !.bountyId = bountyId,
                                  !.solver = solver, !.amount = bountyAmount,
                                  !.pc = "approveSigning"]]
    /\ UNCHANGED <<fixed, balance, transfers, attestations>>

\* verifyAndPayBounty without lines 292-294: the release is posted whatever
\* the signer answered.
Approve_Signed_Unchecked(s, outcome) ==
    LET c == calls[s] IN
    /\ c.pc = "approveSigning"
    /\ calls' = [calls EXCEPT ![s].signed = Append(c.signed, outcome),
                              ![s].attTx = IF outcome = "signed" THEN NextTxId ELSE 0,
                              ![s].to = c.solver,
                              ![s].key = ESCROW_API_KEY,
                              ![s].pc = "posted"]
    /\ attestations' = IF outcome = "signed"
                       THEN Append(attestations,
                              Attestation("bounty_approve", c.bountyId, c.user, parseFloat(c.amount).val, c.id))
                       ELSE attestations
    /\ UNCHANGED <<fixed, balance, transfers>>

\* verifyAndPayBounty, lines 275-303: the signer's callback. A failed
\* approval is returned; after a recorded one releaseEscrowFunds(claim.solver,
\* bountyAmount, bountyId, username, memo) posts to the gateway.
Approve_Signed(s, outcome) ==
    LET c == calls[s] IN
    /\ c.pc = "approveSigning"
    /\ IF outcome = "signed"
       THEN /\ attestations' = Append(attestations,
                    Attestation("bounty_approve", c.bountyId, c.user, parseFloat(c.amount).val, c.id))
            /\ calls' = [calls EXCEPT ![s].signed = Append(c.signed, outcome),
                                      ![s].attTx = NextTxId,
                                      ![s].to = c.solver,
                                      ![s].key = ESCROW_API_KEY,
                                      ![s].pc = "posted"]
       ELSE /\ calls' = [calls EXCEPT ![s].signed = Append(c.signed, outcome),
                                      ![s].result = Result(FALSE, "Failed to record approval", 0),
                                      ![s].pc = "done"]
            /\ UNCHANGED attestations
    /\ UNCHANGED <<fixed, balance, transfers>>

(* --------------------- the gateway on its own ------------------------- *)

LedgerInit ==
    /\ balance = [a \in Users \cup {EscrowName} |->
                    IF a = EscrowName THEN InitialEscrowBalance ELSE InitialUserBalance]
    /\ transfers = << >>
    /\ attestations = << >>

InitGateway ==
    /\ ESCROW_ACCOUNT \in {"", EscrowName, "ghost"}
    /\ ACTIVE_KEY \in BOOLEAN
    /\ hive_keychain = TRUE
    /\ github = GitHubAllGood
    /\ LedgerInit
    /\ calls = [s \in Slots |-> IdleCall]

GatewayStep ==
    \E s \in Slots :
        \/ \E key \in HeaderKeys :
           \E amount \in (IF key = API_KEY THEN AmountTexts ELSE {<<"3", "0">>}) :
                releaseEscrowFunds(s, "bob", amount, "b1", "alice", key)
        \/ \E key \in HeaderKeys : checkEscrowBalance(s, key)
        \/ NetworkError(s)
        \/ Release_Receive(s)
        \/ \E o \in LedgerOutcomes : Release_Check(s, o)
        \/ \E o \in LedgerOutcomes : Release_Broadcast(s, o)
        \/ Balance_Receive(s)
        \/ \E o \in LedgerOutcomes : Balance_Reply(s, o)

SpecGateway == InitGateway /\ [][GatewayStep]_vars

(* --------------------- claiming on its own ---------------------------- *)

InitClaim ==
    /\ ESCROW_ACCOUNT = EscrowName
    /\ ACTIVE_KEY = TRUE
    /\ hive_keychain \in BOOLEAN
    /\ github \in GitHubStates
    /\ LedgerInit
    /\ calls = [s \in Slots |-> IdleCall]

ClaimStep ==
    \E s \in Slots :
        \/ \E u \in Users, link \in IssueUrls, pr \in PullRequestUrls :
                claimBounty(s, u, "b1", link, pr)
        \/ \E link \in IssueUrls, pr \in PullRequestUrls :
                autoVerifyAndPay(s, "bob", "b1", link, 30, pr)
        \/ \E o \in CodeHostOutcomes : Claim_IssueClosed(s, o)
        \/ \E o \in CodeHostOutcomes : Claim_PrDetails(s, o)
        \/ \E o \in CodeHostOutcomes : Claim_PrLinked(s, o)
        \/ \E o \in SignerOutcomes : Claim_Signed(s, o)
        \/ \E o \in SignerOutcomes : Auto_PaySigned(s, o)

SpecClaim == InitClaim /\ [][ClaimStep]_vars

(* ------------------- creating bounties on its own --------------------- *)

InitCreate ==
    /\ ESCROW_ACCOUNT = EscrowName
    /\ ACTIVE_KEY = TRUE
    /\ hive_keychain \in BOOLEAN
    /\ github = GitHubAllGood
    /\ LedgerInit
    /\ calls = [s \in Slots |-> IdleCall]

CreateStep ==
    \E s \in Slots :
        \/ \E u \in Users, b \in Bounties, p \in PrizePools : createBounty(s, u, b, p)
        \/ \E o \in LedgerOutcomes : Create_ContractAccount(s, o)
        \/ \E o \in LedgerOutcomes : Create_UserAccount(s, o)
        \/ \E o \in SignerOutcomes : Create_Signed(s, o)
        \/ \E o \in SendOutcomes : Create_Funded(s, o)

SpecCreate == InitCreate /\ [][CreateStep]_vars

(* ------------------------- the whole system --------------------------- *)

Init ==
    /\ ESCROW_ACCOUNT = EscrowName
    /\ ACTIVE_KEY = TRUE
    /\ hive_keychain \in BOOLEAN
    /\ github = GitHubAllGood
    /\ LedgerInit
    /\ calls = [s \in Slots |-> IdleCall]

Next ==
    \E s \in Slots :
        \/ createBounty(s, "alice", "b1", 30)
        \/ \E o \in LedgerOutcomes : Create_ContractAccount(s, o)
        \/ \E o \in LedgerOutcomes : Create_UserAccount(s, o)
        \/ \E o \in SignerOutcomes : Create_Signed(s, o)
        \/ \E o \in SendOutcomes : Create_Funded(s, o)
        \/ \E b \in Bounties : claimBounty(s, "bob", b, IssueUrl, PrUrl)
        \/ \E o \in CodeHostOutcomes : Claim_IssueClosed(s, o)
        \/ \E o \in CodeHostOutcomes : Claim_PrDetails(s, o)
        \/ \E o \in CodeHostOutcomes : Claim_PrLinked(s, o)
        \/ \E o \in SignerOutcomes : Claim_Signed(s, o)
        \/ \E u \in Users, b \in Bounties : verifyAndPayBounty(s, u, b, "bob", <<"3", "0">>)
        \/ \E o \in SignerOutcomes : Approve_Signed(s, o)
        \/ NetworkError(s)
        \/ Release_Receive(s)
        \/ \E o \in LedgerOutcomes : Release_Check(s, o)
        \/ \E o \in LedgerOutcomes : Release_Broadcast(s, o)

Spec == Init /\ [][Next]_vars

(* ------------- the whole system, its collaborators answering ---------- *)

\* The steps in which the ledger, the code host, the funding transfer or the
\* gateway answers a waiting call. The signer's callbacks are not among
\* them: nothing in the program makes the signer answer.
CollaboratorsAnswer ==
    \E s \in Slots :
        \/ \E o \in LedgerOutcomes : Create_ContractAccount(s, o)
        \/ \E o \in LedgerOutcomes : Create_UserAccount(s, o)
        \/ \E o \in SendOutcomes : Create_Funded(s, o)
        \/ \E o \in CodeHostOutcomes : Claim_IssueClosed(s, o)
        \/ \E o \in CodeHostOutcomes : Claim_PrDetails(s, o)
        \/ \E o \in CodeHostOutcomes : Claim_PrLinked(s, o)
        \/ NetworkError(s)
        \/ Release_Receive(s)
        \/ \E o \in LedgerOutcomes : Release_Check(s, o)
        \/ \E o \in LedgerOutcomes : Release_Broadcast(s, o)

SpecWait == Init /\ [][Next]_vars /\ WF_vars(CollaboratorsAnswer)

(* ============================== claims =============================== *)

ReleaseDone(s) == calls[s].op = "releaseEscrowFunds" /\ calls[s].pc = "done"

\* The transfers the ledger accepted from call number i.
TransfersOf(i) == { k \in 1..Len(transfers) : transfers[k].call = i }

\* The attestations the ledger accepted from call number i.
AttestationsOf(i) == { k \in 1..Len(attestations) : attestations[k].call = i }

\* The ledger and the network answered every step of the call in slot s.
NoUpstreamFault(s) == calls[s].result.message \notin {"Ledger unreachable", "Network Error"}

\* Requests s and t were both being worked on when s arrived, nobody else
\* was, both amounts are positive, each is covered by the custodial balance
\* of that moment and the two together are not.
RacingPair(s, t) ==
    LET as == parseFloat(calls[s].amount)
        at == parseFloat(calls[t].amount)
        B  == calls[s].atStart
    IN  /\ s # t
        /\ ReleaseDone(s) /\ ReleaseDone(t)
        /\ calls[s].peers = {calls[t].id}
        /\ \A u \in Slots \ {s, t} : calls[u].peers \cap {calls[s].id, calls[t].id} = {}
        /\ ~isNaN(as) /\ ~isNaN(at)
        /\ as.val > 0 /\ at.val > 0
        /\ as.val <= B /\ at.val <= B
        /\ as.val + at.val > B
        /\ NoUpstreamFault(s) /\ NoUpstreamFault(t)

\* C1: two concurrent release requests against the same custodial account,
\* each affordable alone and not affordable together, end with exactly one
\* success and one insufficient-balance rejection.
C1_ConcurrentReleasesAtomic ==
    \A s, t \in Slots :
        RacingPair(s, t) =>
            \/ /\ calls[s].result.success
               /\ ~calls[t].result.success
               /\ calls[t].result.message = "Insufficient balance in escrow account"
            \/ /\ calls[t].result.success
               /\ ~calls[s].result.success
               /\ calls[s].result.message = "Insufficient balance in escrow account"

(* ---- the bounty's state, read from the ledger's append-only trail ---- *)

\* The records of bounty b among the first n attestations.
TrailUpTo(n, b) == TrailOf(SubSeq(attestations, 1, n), b)

\* The escrow-to-solver transfers the ledger accepted for bounty b.
PayoutsOf(b) ==
    { k \in 1..Len(transfers) :
        transfers[k].from = EscrowName /\ transfers[k].bountyId = b }

\* The state a trail leaves its bounty in: that of its latest record.
StatusAfter(trail) ==
    IF trail = << >> THEN "NONE"
    ELSE LET last == trail[Len(trail)] IN
         IF last = "bounty_create" THEN "OPEN"
         ELSE IF last = "bounty_claim" THEN "CLAIMED"
         ELSE IF last = "bounty_approve" THEN "APPROVED"
         ELSE "PAID"

\* The bounty's state now: PAID once its payout is on the ledger.
StatusOf(b) ==
    IF PayoutsOf(b) # {} THEN "PAID" ELSE StatusAfter(TrailUpTo(Len(attestations), b))

\* The principals that signed a creation record of bounty b among the first
\* n attestations.
CreatorsUpTo(n, b) ==
    { attestations[k].signer : k \in { j \in 1..n :
        attestations[j].bountyId = b /\ attestations[j].type = "bounty_create" } }

ApproveCall(s) == calls[s].op = "verifyAndPayBounty"

\* C2: over all approve-and-pay calls for one bounty, at most one
\* escrow-to-solver transfer is ever handed to the ledger.
C2_PayoutIdempotentPerBounty ==
    \A b \in Bounties :
        Cardinality({ s \in Slots :
            ApproveCall(s) /\ calls[s].bountyId = b /\ calls[s].sent > 0 }) <= 1

\* C3: an approval record is written, and escrow funds are released, only by
\* a call of the bounty's creator and only for a bounty that was CLAIMED
\* when the approval was written.
C3_ApproveOnlyByCreatorWhenClaimed ==
    /\ \A k \in 1..Len(attestations) :
          attestations[k].type = "bounty_approve" =>
            /\ attestations[k].signer \in CreatorsUpTo(k - 1, attestations[k].bountyId)
            /\ StatusAfter(TrailUpTo(k - 1, attestations[k].bountyId)) = "CLAIMED"
    /\ \A s \in Slots :
          (ApproveCall(s) /\ calls[s].sent > 0) =>
            calls[s].user \in CreatorsUpTo(Len(attestations), calls[s].bountyId)

\* The call c has started its funds transfer, log being the ledger's transfers: createBounty has called
\* sendHiveTokens, verifyAndPayBounty has called releaseEscrowFunds.
TransferStarted(c, log) ==
    \/ c.pc \in {"funding", "posted", "getAccounts", "broadcast"}
    \/ c.sent > 0
    \/ c.resp # NoResponse
    \/ \E k \in 1..Len(log) : log[k].call = c.id

TwoPhase(c) == c.op \in {"createBounty", "verifyAndPayBounty"}

\* One step of the system, seen from the two-phase operations: a transfer
\* starts only in a call that has observed the signer's success; the step
\* that observes a failed attestation ends the call, leaves ledger and
\* bounty state as they were, and no later step starts a transfer in it.
C4_Step ==
    \A s \in Slots :
        LET c == calls[s]
            d == calls'[s]
        IN  TwoPhase(d) =>
            /\ (TransferStarted(d, transfers') /\ ~TransferStarted(c, transfers)) =>
                    d.signed = <<"signed">>
            /\ (d.signed = <<"refused">> /\ c.signed = << >>) =>
                    /\ d.pc = "done" /\ ~d.result.success
                    /\ ~TransferStarted(d, transfers')
                    /\ transfers' = transfers /\ attestations' = attestations
                    /\ \A b \in Bounties : StatusOf(b)' = StatusOf(b)
            /\ c.signed = <<"refused">> => (d = c /\ ~TransferStarted(d, transfers'))

\* C4: in createBounty and verifyAndPayBounty the transfer is started only
\* after the signer's completion was observed with success; after a failed
\* attestation the operation never attempts a transfer and the bounty stays
\* in the state it was in (CLAIMED, for approve-and-pay).
C4_TransferOnlyAfterSignerSuccess == [][C4_Step]_vars

\* An approve-and-pay call on a bounty that a successful claim left CLAIMED
\* ended on the signer's refusal with nothing sent.
C4_Witness ==
    \E s, t \in Slots :
        /\ ApproveCall(s) /\ calls[s].pc = "done"
        /\ calls[s].signed = <<"refused">>
        /\ calls[s].sent = 0 /\ calls[s].resp = NoResponse
        /\ StatusOf(calls[s].bountyId) = "CLAIMED"
        /\ calls[t].op = "claimBounty" /\ calls[t].result.success

\* C5: when the approval was recorded and the release then failed, the
\* result is success:false, says more than the release's own failure
\* message, carries the approval's transaction identifier, and the bounty is
\* not PAID.
C5_PartialSuccessReported ==
    \A s \in Slots :
        (/\ ApproveCall(s) /\ calls[s].pc = "done"
         /\ calls[s].signed = <<"signed">>
         /\ TransfersOf(calls[s].id) = {}) =>
            /\ ~calls[s].result.success
            /\ calls[s].result.txId = calls[s].attTx
            /\ calls[s].result.message # ReleaseResult(calls[s].resp).message
            /\ StatusOf(calls[s].bountyId) # "PAID"

(* ------------------------------ claiming ------------------------------ *)

\* The call in slot s ran claimBounty and has returned.
ClaimDone(s) == calls[s].op = "claimBounty" /\ calls[s].pc = "done"

\* Both URLs of the call in slot s parse and name one repository.
SameRepository(s) ==
    LET issueUrlInfo == parseGitHubUrl(calls[s].githubLink)
        prUrlInfo    == parseGitHubUrl(calls[s].pullRequestUrl)
    IN  /\ issueUrlInfo.ok /\ prUrlInfo.ok
        /\ issueUrlInfo.owner = prUrlInfo.owner
        /\ issueUrlInfo.repo = prUrlInfo.repo

GuardQueries == <<"isIssueClosed", "getPullRequestDetails", "isPRLinkedToIssue">>

SameRepositoryMessage == "Pull request must be in the same repository as the issue"

IssueClosedMessage == "The issue must be closed before claiming the bounty"

MergedMessage == "The pull request must be merged before claiming the bounty"

LinkedMessage == "The pull request must reference the issue it resolves"

\* C6: the code-host queries of a claim are issued in the order
\* issue-closed, PR-merged, PR-linked, after the same-repository check; a
\* rejection is the one of the first guard that fails and no query follows it.
C6_GuardsInOrderShortCircuit ==
    \A s \in Slots :
        LET c == calls[s]
            n == Len(c.queries)
            m == c.result.message
        IN  c.op = "claimBounty" =>
            /\ n <= 3 /\ c.queries = SubSeq(GuardQueries, 1, n)
            /\ ClaimDone(s) =>
                /\ ~SameRepository(s) => (n = 0 /\ ~c.result.success)
                /\ (parseGitHubUrl(c.githubLink).ok /\ parseGitHubUrl(c.pullRequestUrl).ok
                        /\ ~SameRepository(s)) => m = SameRepositoryMessage
                /\ (SameRepository(s) /\ ~github.issueClosed) =>
                        (n = 1 /\ m = IssueClosedMessage)
                /\ (SameRepository(s) /\ github.issueClosed /\ ~c.failed /\ ~github.merged) =>
                        (n = 2 /\ m = MergedMessage)
                /\ (SameRepository(s) /\ github.issueClosed /\ ~c.failed
                        /\ github.merged /\ github.user /\ ~github.linked) =>
                        (n = 3 /\ m = LinkedMessage)
                /\ m = SameRepositoryMessage => n = 0
                /\ m = IssueClosedMessage => n = 1
                /\ m = MergedMessage => (n = 2 /\ github.issueClosed)
                /\ m = LinkedMessage => (n = 3 /\ github.issueClosed /\ github.merged)
                /\ ~c.result.success => AttestationsOf(c.id) = {}

\* A claim was rejected at the PR-merged guard after exactly the two queries
\* before it, and another at the same-repository check with no query at all.
C6_Witness ==
    \E s, t \in Slots :
        /\ ClaimDone(s) /\ calls[s].result.message = MergedMessage
        /\ calls[s].queries = <<"isIssueClosed", "getPullRequestDetails">>
        /\ ClaimDone(t) /\ calls[t].result.message = SameRepositoryMessage
        /\ calls[t].queries = << >>

\* C7 as stated: whenever the linked issue is open, the claim is rejected
\* with the issue-closed message and writes no attestation.
C7_IssueOpenRejected ==
    \A s \in Slots :
        (ClaimDone(s) /\ ~github.issueClosed) =>
            /\ calls[s].result = Result(FALSE, IssueClosedMessage, 0)
            /\ AttestationsOf(calls[s].id) = {}

\* C7: a claim whose URLs parse and name one repository, and whose linked
\* issue is open, is rejected with the issue-closed message and writes no
\* attestation.
C7_IssueOpenRejectedSameRepository ==
    \A s \in Slots :
        (ClaimDone(s) /\ SameRepository(s) /\ ~github.issueClosed) =>
            /\ calls[s].result = Result(FALSE, IssueClosedMessage, 0)
            /\ ~calls[s].fault
            /\ calls[s].signed = << >>
            /\ AttestationsOf(calls[s].id) = {}

\* The issue is open and a claim with URLs of one repository was rejected
\* with the issue-closed message while the code host answered.
C7_Witness ==
    \E s \in Slots :
        /\ ClaimDone(s) /\ SameRepository(s) /\ ~github.issueClosed
        /\ ~calls[s].failed
        /\ calls[s].result.message = IssueClosedMessage
        /\ attestations = << >>

\* C8 as stated: whenever the pull request is merged and not linked to the
\* issue, the claim is rejected at the linkage guard after each earlier
\* guard ran once.
C8_MergedUnlinkedRejectedAtLinkage ==
    \A s \in Slots :
        (ClaimDone(s) /\ github.merged /\ ~github.linked) =>
            /\ calls[s].result = Result(FALSE, LinkedMessage, 0)
            /\ calls[s].queries = GuardQueries

\* The guards before the linkage guard pass for the call in slot s: one
\* repository, issue closed, pull request merged, its author known, and the
\* code host answered the queries about them.
EarlierGuardsPass(s) ==
    /\ SameRepository(s)
    /\ github.issueClosed /\ github.merged /\ github.user
    /\ calls[s].failed => Len(calls[s].queries) = 3

\* C8: a claim that passes the earlier guards and whose merged pull request
\* is not linked to the issue is rejected at the linkage guard, each of the
\* three code-host queries having been issued exactly once, in order.
C8_MergedUnlinkedAfterEarlierGuards ==
    \A s \in Slots :
        (ClaimDone(s) /\ EarlierGuardsPass(s) /\ ~github.linked) =>
            /\ calls[s].result = Result(FALSE, LinkedMessage, 0)
            /\ calls[s].queries = GuardQueries
            /\ AttestationsOf(calls[s].id) = {}

\* A merged, unlinked pull request was rejected at the linkage guard after
\* the three queries.
C8_Witness ==
    \E s \in Slots :
        /\ ClaimDone(s) /\ EarlierGuardsPass(s) /\ ~github.linked
        /\ ~calls[s].failed
        /\ calls[s].result.message = LinkedMessage
        /\ calls[s].queries = GuardQueries

(* ------------------------------ creating ------------------------------ *)

\* C9: a createBounty call made when the creator's balance is below the
\* prize pool never reaches the signer: it asks for no attestation, starts
\* no transfer, and returns success:false.
C9_InsufficientBalanceBeforeSigner ==
    \A s \in Slots :
        LET c == calls[s] IN
        (c.op = "createBounty" /\ c.atStart < c.prizePool) =>
            /\ c.pc \in {"contractAccount", "userAccount", "done"}
            /\ c.signed = << >>
            /\ c.sent = 0
            /\ AttestationsOf(c.id) = {}
            /\ TransfersOf(c.id) = {}
            /\ c.pc = "done" => ~c.result.success

\* A creator with 50 asked for a prize pool of 80 and was refused for its
\* balance, nothing signed and nothing moved.
C9_Witness ==
    \E s \in Slots :
        /\ calls[s].op = "createBounty" /\ calls[s].pc = "done"
        /\ calls[s].prizePool > calls[s].seen /\ calls[s].seen >= 0
        /\ calls[s].result = Result(FALSE, "Insufficient balance", 0)
        /\ AttestationsOf(calls[s].id) = {} /\ TransfersOf(calls[s].id) = {}

\* The amount of the release request in slot s is no positive number.
AmountNotPositive(s) ==
    LET a == parseFloat(calls[s].amount) IN isNaN(a) \/ a.val <= 0

\* The release request in slot s read a custodial balance below its amount.
ReadTooLittle(s) ==
    LET a == parseFloat(calls[s].amount) IN
    calls[s].seen >= 0 /\ ~isNaN(a) /\ calls[s].seen < a.val

\* The messages POST /api/release gives for a failed precondition.
PreconditionMessages ==
    {"Missing required parameters", "Invalid amount",
     "Private key not configured or invalid",
     "Insufficient balance in escrow account"}

\* The request in slot s was answered by the gateway's own checks of the
\* request: it was authorized, the custodial account is configured and
\* found, and the ledger answered.
ReachedChecks(s) ==
    /\ calls[s].resp.status \notin {0, 401, 404}
    /\ calls[s].resp.message \notin {"Escrow account not properly configured", "Ledger unreachable"}

\* C10: a release request whose amount is no positive number, whose gateway
\* has no signing credential, or that read a balance below its amount, is
\* answered success:false with a message and submits no transfer; once the
\* gateway's checks are reached the message names the failed precondition,
\* and an amount of -5 on a working gateway gives "Invalid amount".
C10_PreconditionFailureNoTransfer ==
    \A s \in Slots :
        (ReleaseDone(s) /\ (AmountNotPositive(s) \/ ~ACTIVE_KEY \/ ReadTooLittle(s))) =>
            /\ ~calls[s].result.success
            /\ calls[s].result.message # ""
            /\ calls[s].sent = 0
            /\ TransfersOf(calls[s].id) = {}
            /\ ReachedChecks(s) => calls[s].result.message \in PreconditionMessages
            /\ (ReachedChecks(s) /\ ACTIVE_KEY /\ calls[s].amount = <<"-", "5">>) =>
                    calls[s].result.message = "Invalid amount"
            /\ (ReadTooLittle(s) /\ ~AmountNotPositive(s)) =>
                    calls[s].result.message = "Insufficient balance in escrow account"

\* A request for -5 was refused with "Invalid amount" and the custodial
\* balance is what it was.
C10_Witness ==
    \E s \in Slots :
        /\ ReleaseDone(s)
        /\ calls[s].amount = <<"-", "5">>
        /\ calls[s].result = Result(FALSE, "Invalid amount", 0)
        /\ balance[EscrowName] = InitialEscrowBalance
        /\ transfers = << >>

(* --------------------------- the gateway ------------------------------ *)

\* The step completes the release request in slot s with success.
ReleaseSucceeds(s) ==
    /\ calls[s].op = "releaseEscrowFunds" /\ calls[s].pc # "done"
    /\ calls'[s].pc = "done" /\ calls'[s].result.success

\* One step of the gateway: a release that succeeds has put exactly one
\* transfer on the ledger, from the custodial account to the recipient for
\* the amount asked; the custodial balance fell by it, the recipient's rose
\* by it, and the result carries the transfer's transaction identifier.
C11_Step ==
    \A s \in Slots :
        ReleaseSucceeds(s) =>
            LET c   == calls[s]
                amt == parseFloat(c.amount)
                n   == Len(transfers)
            IN  /\ ~isNaN(amt) /\ amt.val > 0
                /\ calls'[s].sent = 1
                /\ Len(transfers') = n + 1
                /\ SubSeq(transfers', 1, n) = transfers
                /\ transfers'[n + 1].from = ESCROW_ACCOUNT
                /\ transfers'[n + 1].to = c.to
                /\ transfers'[n + 1].amount = amt.val
                /\ transfers'[n + 1].call = c.id
                /\ balance'[ESCROW_ACCOUNT] = balance[ESCROW_ACCOUNT] - amt.val
                /\ balance'[c.to] = balance[c.to] + amt.val
                /\ calls'[s].result.txId = transfers'[n + 1].txId
                /\ calls'[s].result.txId > 0

\* C11: a successful release submits exactly one transfer, from the
\* custodial account to the recipient for exactly the amount asked, the
\* custodial balance decreases by that amount, and the result carries the
\* ledger's transaction identifier.
C11_SuccessfulReleaseOneTransfer == [][C11_Step]_vars

\* A release of 30 has succeeded: the custodial balance went from 100 to
\* 70 and the result names the one transfer on the ledger.
C11_Witness ==
    \E s \in Slots :
        /\ ReleaseDone(s) /\ calls[s].result.success
        /\ calls[s].amount = <<"3", "0">>
        /\ Len(transfers) = 1 /\ transfers[1].amount = 30
        /\ calls[s].result.txId = transfers[1].txId
        /\ balance[EscrowName] = InitialEscrowBalance - 30

\* The call in slot s went to one of the gateway's two endpoints.
GatewayCall(s) == calls[s].op \in {"releaseEscrowFunds", "checkEscrowBalance"}

\* C12: a request to the balance or release endpoint whose key header is
\* absent or wrong never comes to a ledger read or a transfer submission,
\* and what the gateway answers it is 401 Unauthorized.
C12_UnauthorizedNoLedgerAccess ==
    \A s \in Slots :
        (GatewayCall(s) /\ calls[s].key # API_KEY) =>
            /\ calls[s].pc \in {"posted", "balancePosted", "done"}
            /\ calls[s].seen = -1
            /\ calls[s].sent = 0
            /\ TransfersOf(calls[s].id) = {}
            /\ calls[s].resp \in {NoResponse, Response(401, FALSE, "Unauthorized", 0)}
            /\ calls[s].pc = "done" => ~calls[s].result.success
            /\ (calls[s].pc = "done" /\ calls[s].result.message # "Network Error") =>
                    /\ calls[s].resp.status = 401
                    /\ calls[s].result.message = "Unauthorized"

\* A release request without the header and a balance request with a stale
\* key were both answered 401, the ledger untouched.
C12_Witness ==
    \E s, t \in Slots :
        /\ calls[s].op = "releaseEscrowFunds" /\ calls[s].key = ""
        /\ calls[s].resp.status = 401
        /\ calls[t].op = "checkEscrowBalance" /\ calls[t].key = "stale-key"
        /\ calls[t].resp.status = 401
        /\ transfers = << >>

\* The balance request in slot s was authorized, asked for an account the
\* ledger knows, and was answered by gateway and ledger.
BalanceAnswered(s) ==
    /\ calls[s].op = "checkEscrowBalance" /\ calls[s].pc = "done"
    /\ verifyApiKey(calls[s].key)
    /\ ESCROW_ACCOUNT \in DOMAIN balance
    /\ calls[s].resp # NoResponse
    /\ calls[s].resp.message # "Ledger unreachable"

\* C13: without the custodial signing credential no release request comes
\* to submit a transfer and each is answered success:false, while a balance
\* inquiry for the configured account, ledger reachable, still succeeds
\* with the balance the ledger holds.
C13_NoCredentialDisablesReleaseOnly ==
    ~ACTIVE_KEY =>
        \A s \in Slots :
            /\ calls[s].op = "releaseEscrowFunds" =>
                    /\ calls[s].pc \in {"posted", "done"}
                    /\ calls[s].sent = 0
                    /\ TransfersOf(calls[s].id) = {}
                    /\ calls[s].pc = "done" => ~calls[s].result.success
                    /\ (calls[s].pc = "done" /\ verifyApiKey(calls[s].key)
                            /\ Truthy(calls[s].amount) /\ ESCROW_ACCOUNT # ""
                            /\ calls[s].resp # NoResponse) =>
                        calls[s].result.message = "Private key not configured or invalid"
            /\ BalanceAnswered(s) =>
                    /\ calls[s].result.success
                    /\ calls[s].resp.status = 200
                    /\ calls[s].seen = balance[ESCROW_ACCOUNT]

\* Without the credential a release was refused for the missing key and a
\* balance inquiry succeeded.
C13_Witness ==
    \E s, t \in Slots :
        /\ ~ACTIVE_KEY
        /\ ReleaseDone(s)
        /\ calls[s].result = Result(FALSE, "Private key not configured or invalid", 0)
        /\ BalanceAnswered(t) /\ calls[t].result.success
        /\ calls[t].seen = InitialEscrowBalance

(* ------------------------ failures of collaborators ------------------- *)

\* The operations that hand a record to the signer.
SigningOperations == {"createBounty", "claimBounty", "verifyAndPayBounty", "autoVerifyAndPay"}

\* C14: with no signing capability in the caller's environment, each
\* operation that needs it returns success:false instead of faulting, has
\* nothing signed and makes no transfer.
C14_SignerAbsentReturnsFailure ==
    ~hive_keychain =>
        \A s \in Slots :
            calls[s].op \in SigningOperations =>
                /\ ~calls[s].fault
                /\ calls[s].pc = "done" => ~calls[s].result.success
                /\ calls[s].signed = << >>
                /\ calls[s].sent = 0
                /\ TransfersOf(calls[s].id) = {}

\* A collaborator of the call in slot s failed: a code-host query went
\* unanswered, the signer refused, or the gateway answered an error status.
CollaboratorFailed(s) ==
    \/ calls[s].failed
    \/ \E i \in 1..Len(calls[s].signed) : calls[s].signed[i] = "refused"
    \/ calls[s].resp.status >= 400

\* C15: every public operation that has returned did so with a result, not
\* a fault or a rejected completion; a failed result has a message, and
\* after a collaborator's failure the result is success:false.
C15_UniformFailureResult ==
    \A s \in Slots :
        calls[s].pc = "done" =>
            /\ ~calls[s].fault
            /\ ~calls[s].result.success => calls[s].result.message # ""
            /\ CollaboratorFailed(s) => ~calls[s].result.success

\* The createBounty call in slot s has returned, its creation record is on
\* the ledger and its funding transfer is not.
CreatedUnfunded(s) ==
    /\ calls[s].op = "createBounty" /\ calls[s].pc = "done"
    /\ calls[s].signed = <<"signed">>
    /\ TransfersOf(calls[s].id) = {}

\* C16: when the creation record was signed and the funding transfer then
\* failed, the result is success:false, says the bounty was created, the
\* funding failed and is to be done manually, and carries the creation
\* record's transaction identifier; the record stays and the call issues
\* nothing to undo it.
C16_CreatedButUnfundedReported ==
    \A s \in Slots :
        CreatedUnfunded(s) =>
            /\ calls[s].result =
                    Result(FALSE, "Bounty created but funding failed. Please try funding manually.",
                           calls[s].attTx)
            /\ calls[s].sent = 1
            /\ \E k \in 1..Len(attestations) :
                    /\ AttestationsOf(calls[s].id) = {k}
                    /\ attestations[k].type = "bounty_create"
                    /\ attestations[k].bountyId = calls[s].bountyId
                    /\ attestations[k].txId = calls[s].result.txId

\* A bounty of 30 was recorded as created, its funding failed, and the
\* result names the record; no funds have moved.
C16_Witness ==
    \E s \in Slots :
        /\ CreatedUnfunded(s)
        /\ calls[s].prizePool = 30
        /\ ~calls[s].result.success
        /\ calls[s].result.txId = calls[s].attTx /\ calls[s].attTx > 0
        /\ Len(attestations) = 1 /\ transfers = << >>

(* --------------------------- the lifecycle ---------------------------- *)

\* A record of the given type for bounty b is among the first n attestations.
RecordedUpTo(n, type, b) ==
    \E j \in 1..n : attestations[j].type = type /\ attestations[j].bountyId = b

\* C17: in the ledger's trail a bounty_pay record of a bounty comes only
\* after a bounty_approve record of it, and a bounty_approve record only
\* after a bounty_claim record of it.
C17_TrailFollowsLifecycle ==
    \A k \in 1..Len(attestations) :
        LET a == attestations[k] IN
        /\ a.type = "bounty_pay" => RecordedUpTo(k - 1, "bounty_approve", a.bountyId)
        /\ a.type = "bounty_approve" => RecordedUpTo(k - 1, "bounty_claim", a.bountyId)

\* The claim records of bounty b on the ledger.
ClaimsOf(b) ==
    { k \in 1..Len(attestations) :
        attestations[k].type = "bounty_claim" /\ attestations[k].bountyId = b }

\* C18: a bounty has at most one claim record: after one claimBounty for it
\* has succeeded, a further one is rejected and writes none.
C18_OneActiveClaimPerBounty ==
    /\ \A b \in Bounties : Cardinality(ClaimsOf(b)) <= 1
    /\ \A s, t \in Slots :
          (/\ s # t
           /\ calls[s].op = "claimBounty" /\ calls[t].op = "claimBounty"
           /\ calls[s].bountyId = calls[t].bountyId
           /\ calls[s].result.success) => ~calls[t].result.success

\* C19: every creation record on the ledger has a prize pool above zero,
\* and a createBounty call for a prize pool of zero or less has nothing
\* signed and starts no transfer.
C19_PrizePoolPositive ==
    /\ \A k \in 1..Len(attestations) :
          attestations[k].type = "bounty_create" => attestations[k].amount > 0
    /\ \A s \in Slots :
          (calls[s].op = "createBounty" /\ calls[s].prizePool <= 0) =>
            /\ calls[s].signed = << >>
            /\ calls[s].sent = 0
            /\ AttestationsOf(calls[s].id) = {}
            /\ TransfersOf(calls[s].id) = {}

(* ------------------------- waiting for the signer --------------------- *)

\* Where a call waits for the signer's callback.
SignerWaits == {"createSigning", "claimSigning", "approveSigning"}

\* C20: a createBounty, claimBounty or verifyAndPayBounty call that waits
\* for the signer eventually returns a result to its caller, whether or not
\* the signer ever delivers its callback.
C20_SignerWaitBounded ==
    \A s \in Slots : (calls[s].pc \in SignerWaits) ~> (calls[s].pc = "done")

(* -------------------------- balance inquiry --------------------------- *)

\* The step is one of the balance inquiry in slot s: its call, its arrival
\* at the gateway, or its answer.
BalanceStep(s) ==
    /\ calls'[s].op = "checkEscrowBalance"
    /\ calls'[s] # calls[s]

\* The inquiry in slot s has returned the balance it read.
BalanceRead(s) ==
    /\ calls[s].op = "checkEscrowBalance" /\ calls[s].pc = "done"
    /\ calls[s].result.success

\* One step of the gateway, seen from the balance inquiries: no step of an
\* inquiry changes a balance or the ledger's transfers or submits one, an
\* inquiry that succeeds returns the custodial balance of that moment, and
\* two inquiries with the same transfers behind them returned the same
\* balance.
C21_Step ==
    /\ \A s \in Slots :
          BalanceStep(s) =>
            /\ balance' = balance /\ transfers' = transfers
            /\ calls'[s].sent = 0
            /\ (calls'[s].pc = "done" /\ calls'[s].result.success) =>
                    /\ calls'[s].seen = balance[ESCROW_ACCOUNT]
                    /\ calls'[s].readAt = Len(transfers)
    /\ \A s, t \in Slots :
          (BalanceRead(s) /\ BalanceRead(t) /\ calls[s].readAt = calls[t].readAt) =>
                calls[s].seen = calls[t].seen

\* C21: a balance inquiry is read-only, and consecutive inquiries with no
\* transfer between them return the same balance.
C21_BalanceInquiryIdempotent == [][C21_Step]_vars

\* Two inquiries in a row returned 100 and the ledger is as it was.
C21_Witness ==
    \E s, t \in Slots :
        /\ s # t /\ BalanceRead(s) /\ BalanceRead(t)
        /\ calls[s].seen = InitialEscrowBalance /\ calls[t].seen = InitialEscrowBalance
        /\ calls[s].readAt = 0 /\ calls[t].readAt = 0
        /\ balance[EscrowName] = InitialEscrowBalance /\ transfers = << >>

(* ------------------------------ payment ------------------------------- *)

\* An escrow-to-solver transfer for bounty b is on the ledger with a
\* transaction identifier below tx.
PaidBefore(b, tx) ==
    \E k \in PayoutsOf(b) : transfers[k].txId < tx

\* The operations whose success result says the bounty was paid.
PayingOperations == {"verifyAndPayBounty", "autoVerifyAndPay"}

\* C22: a bounty_pay record of a bounty is on the ledger, or an operation
\* has returned a payment success for it, only after an escrow-to-solver
\* transfer for that bounty went through.
C22_PaidOnlyWhenFundsMoved ==
    /\ \A k \in 1..Len(attestations) :
          attestations[k].type = "bounty_pay" =>
                PaidBefore(attestations[k].bountyId, attestations[k].txId)
    /\ \A s \in Slots :
          (/\ calls[s].op \in PayingOperations
           /\ calls[s].pc = "done" /\ calls[s].result.success) =>
                PayoutsOf(calls[s].bountyId) # {}

(* -------------------------- rejected claims --------------------------- *)

\* What claimBounty returns when a URL is invalid or a guard fails.
RejectionMessages ==
    {"Invalid GitHub URLs", SameRepositoryMessage, IssueClosedMessage, MergedMessage,
     "Could not verify pull request creator", LinkedMessage}

\* The step is one of the claimBounty call in slot s.
ClaimStep_Of(s) ==
    /\ calls'[s].op = "claimBounty"
    /\ calls'[s] # calls[s]

\* The step makes the claimBounty call in slot s return a rejection.
ClaimRejected(s) ==
    /\ ClaimStep_Of(s)
    /\ calls'[s].pc = "done"
    /\ ~calls'[s].result.success
    /\ calls'[s].result.message \in RejectionMessages

\* One step, seen from claimBounty: no step of a claim moves funds or
\* submits a transfer; the step that returns a rejection comes before any
\* call of the signer and leaves the ledger's trail, hence every bounty's
\* state, as it was.
C23_Step ==
    \A s \in Slots :
        /\ ClaimStep_Of(s) =>
                /\ balance' = balance /\ transfers' = transfers
                /\ calls'[s].sent = 0
        /\ ClaimRejected(s) =>
                /\ calls'[s].signed = << >>
                /\ ~calls'[s].fault
                /\ attestations' = attestations
                /\ \A k \in 1..Len(attestations) : attestations[k].call # calls'[s].id
                /\ \A b \in Bounties : StatusOf(b)' = StatusOf(b)

\* C23: a claim rejected for an invalid URL or a failed guard has asked
\* for no attestation, moved no funds and left the bounty in the state it
\* was in; claimBounty moves no funds in any execution.
C23_RejectedClaimNoSideEffects == [][C23_Step]_vars

\* A claim for b1 was rejected with nothing written, and a later claim for
\* b1 whose guards pass has succeeded and written the only record.
C23_Witness ==
    \E s, t \in Slots :
        /\ ClaimDone(s) /\ ClaimDone(t)
        /\ calls[s].id < calls[t].id
        /\ calls[s].bountyId = calls[t].bountyId
        /\ calls[s].result.message \in RejectionMessages
        /\ calls[s].signed = << >> /\ AttestationsOf(calls[s].id) = {}
        /\ calls[t].result.success
        /\ Len(attestations) = 1 /\ attestations[1].call = calls[t].id
        /\ StatusOf(calls[t].bountyId) = "CLAIMED"
        /\ transfers = << >>

====
